---- MODULE Spec2Model ----
(***************************************************************************)
(* Model of the Daily Reset content pipeline (update_tips.py, config.py).  *)
(*                                                                         *)
(* Strings are sequences of one-character strings, so that len(), slicing, *)
(* lower() and strip() are computed and not assumed.  A JSON value parsed  *)
(* from the generator's answer is a record [k, s, n]: k is its Python type *)
(* ("str", "null", "num", "list", or "absent" for a missing key), s the    *)
(* characters of a str, n the number of a num or the length of a list.     *)
(***************************************************************************)
EXTENDS Integers, Sequences, FiniteSets, TLC

\* ------------------------------------------------------------- bounds
MaxCands == 2        \* longest candidate array drawn in the call-level specification
MaxCalls == 2        \* process_single_video calls in the call-level specification
MaxRuns == 2         \* runs of main()
MaxTicks == 1        \* clock steps
MaxUploads == 1      \* videos the channels publish

\* ------------------------------------------------- program constants
MaxContentLen == 280
TruncLen == 277
DEFAULT_LOOKBACK_HOURS == 24
MaxResults == 5

\* -------------------------------------------------------- JSON values
Str(s) == [k |-> "str", s |-> s, n |-> 0]
Null == [k |-> "null", s |-> <<>>, n |-> 0]
Num(n) == [k |-> "num", s |-> <<>>, n |-> n]
List(n) == [k |-> "list", s |-> <<>>, n |-> n]
Absent == [k |-> "absent", s |-> <<>>, n |-> 0]

\* dict.get(key, ""): a missing key reads as the empty string, a present key
\* as whatever value it holds (null included).
Get(v) == IF v.k = "absent" THEN Str(<<>>) ELSE v

\* Python truthiness: "", None, 0 and [] are falsy.
Truthy(v) ==
    CASE v.k = "str" -> v.s # <<>>
      [] v.k = "num" -> v.n # 0
      [] v.k = "list" -> v.n # 0
      [] OTHER -> FALSE

\* hash(v) succeeds (a list is unhashable: `x in a_set` raises TypeError).
Hashable(v) == v.k # "list"

\* len(v) succeeds (None and numbers have no len(): TypeError).
HasLen(v) == v.k \in {"str", "list"}

PyLen(v) == IF v.k = "str" THEN Len(v.s) ELSE v.n

\* ------------------------------------------------------------ strings
LowerChar(c) ==
    CASE c = "A" -> "a"
      [] c = "B" -> "b"
      [] c = "X" -> "x"
      [] c = "Y" -> "y"
      [] OTHER -> c

\* str.lower()
Lower(s) == [i \in 1..Len(s) |-> LowerChar(s[i])]

IsSpace(c) == c = " "

RECURSIVE LStrip(_)
LStrip(s) ==
    IF s # <<>> /\ IsSpace(Head(s)) THEN LStrip(Tail(s)) ELSE s

RECURSIVE RStrip(_)
RStrip(s) ==
    IF s # <<>> /\ IsSpace(s[Len(s)]) THEN RStrip(SubSeq(s, 1, Len(s) - 1)) ELSE s

\* str.strip()
Strip(s) == RStrip(LStrip(s))

\* the key both fields are compared by: value.lower().strip()
Norm(s) == Strip(Lower(s))

Ellipsis == <<".", ".", ".">>

\* ----------------------------------------------------- category names
VALID_CATEGORIES ==
    { <<"S","l","e","e","p">>,
      <<"F","o","c","u","s">>,
      <<"A","n","x","i","e","t","y">>,
      <<"R","e","l","a","t","i","o","n","s","h","i","p","s">>,
      <<"W","e","a","l","t","h">>,
      <<"M","i","n","d","s","e","t">>,
      <<"H","e","a","l","t","h">>,
      <<"N","u","t","r","i","t","i","o","n">>,
      <<"F","i","t","n","e","s","s">>,
      <<"D","i","g","i","t","a","l"," ","D","e","t","o","x">>,
      <<"P","r","o","d","u","c","t","i","v","i","t","y">> }

\* ---------------------------------------------- extract_tips: validation
\* One element of the parsed array: obj says whether it is a JSON object.
Cand(cat, src, ttl, cnt) ==
    [obj |-> TRUE, category |-> cat, source |-> src, title |-> ttl, content |-> cnt]
NonObject ==
    [obj |-> FALSE, category |-> Absent, source |-> Absent, title |-> Absent,
     content |-> Absent]

\* the content left as long as it came
Truncate_keeps_all(content) == content

\* content[:277] + "..."
Truncate(content) == Str(SubSeq(content.s, 1, TruncLen) \o Ellipsis)

\* The body of the validation loop for one element: "skip" is `continue`,
\* "raise" is an exception leaving extract_tips, "ok" appends tip.
ValidateOne(tip) ==
    LET category == Get(tip.category)
        source == Get(tip.source)
        title == Get(tip.title)
        content0 == Get(tip.content)
        none == [res |-> "skip", tip |-> Cand(Absent, Absent, Absent, Absent)]
    IN  IF ~tip.obj THEN none
        ELSE IF ~Hashable(category) THEN [none EXCEPT !.res = "raise"]
        ELSE IF ~(category.k = "str" /\ category.s \in VALID_CATEGORIES) THEN none
        ELSE IF ~HasLen(content0) THEN [none EXCEPT !.res = "raise"]
        ELSE IF PyLen(content0) > MaxContentLen /\ content0.k # "str"
             THEN [none EXCEPT !.res = "raise"]
        ELSE LET content == IF PyLen(content0) > MaxContentLen
                            THEN Truncate(content0) ELSE content0
             IN  IF ~Truthy(title) \/ ~Truthy(content) \/ ~Truthy(source) THEN none
                 ELSE [res |-> "ok", tip |-> Cand(category, source, title, content)]

RECURSIVE ValidateLoop(_, _, _)
ValidateLoop(tips, i, validated) ==
    IF i > Len(tips) THEN [raised |-> FALSE, tips |-> validated]
    ELSE LET r == ValidateOne(tips[i])
         IN  CASE r.res = "raise" -> [raised |-> TRUE, tips |-> <<>>]
               [] r.res = "skip" -> ValidateLoop(tips, i + 1, validated)
               [] OTHER -> ValidateLoop(tips, i + 1, Append(validated, r.tip))

\* ------------------------------------------------------- sample values
S(c) == Str(<<c>>)
Sleep == Str(<<"S","l","e","e","p">>)
Focus == Str(<<"F","o","c","u","s">>)
Wellness == Str(<<"W","e","l","l","n","e","s","s">>)
Guest == Str(<<"D","r">>)
LongContent == Str([i \in 1..(MaxContentLen + 1) |-> "y"])

\* The elements the generator's arrays are made of, by the name of their text.
Elements ==
    { "Good1", "SameTitle", "SameContent", "TooLong", "BadCategory", "NoSource",
      "NonObject", "NullContent", "NumTitle" }

\* json.loads of one element of the array.
Parsed(text) ==
    CASE text = "Good1" -> Cand(Sleep, Guest, S("a"), S("x"))
      [] text = "SameTitle" -> Cand(Focus, Guest, Str(<<"A", " ">>), S("z"))
      [] text = "SameContent" -> Cand(Sleep, Guest, S("b"), Str(<<" ", "X">>))
      [] text = "TooLong" -> Cand(Sleep, Guest, S("c"), LongContent)
      [] text = "BadCategory" -> Cand(Wellness, Guest, S("e"), S("w"))
      [] text = "NoSource" -> Cand(Sleep, Absent, S("e"), S("w"))
      [] text = "NullContent" -> Cand(Sleep, Guest, S("e"), Null)
      [] text = "NumTitle" -> Cand(Sleep, Guest, Num(5), S("w"))
      [] OTHER -> NonObject

\* The generator's answer: kind "error" (the call raised), "invalid" (not
\* JSON), "nonarray" (JSON, not a list) or "array" with its elements' texts.
Gen(kind, items) == [kind |-> kind, items |-> items]

\* Lines 152-160: json.loads and the isinstance check.
json_loads(gen) == [i \in 1..Len(gen.items) |-> Parsed(gen.items[i])]

extract_tips(gen) ==
    IF gen.kind # "array" THEN [raised |-> FALSE, tips |-> <<>>]
    ELSE ValidateLoop(json_loads(gen), 1, <<>>)

\* ------------------------------------------------------- tip collection
\* A stored record: the validated fields plus the id set at line 278.
WithId(tip, id) ==
    [id |-> id, category |-> tip.category, source |-> tip.source,
     title |-> tip.title, content |-> tip.content]

\* max(t.get("id", 0) for t in existing) over a non-empty list, from index i on
RECURSIVE MaxId(_, _)
MaxId(existing, i) ==
    IF i = Len(existing) THEN existing[i].id
    ELSE LET rest == MaxId(existing, i + 1)
         IN  IF existing[i].id > rest THEN existing[i].id ELSE rest

\* next_id without the + 1
next_id_max(existing) ==
    IF existing = <<>> THEN 1 ELSE MaxId(existing, 1)

next_id(existing) ==
    IF existing = <<>> THEN 1 ELSE MaxId(existing, 1) + 1

\* ------------------------------------------------------- deduplication
\* The scan of lines 248-253, from index i on: the first record whose
\* normalised title or content equals the candidate's ends it with True.
RECURSIVE DupScan(_, _, _, _)
DupScan(new_title, new_content, existing, i) ==
    IF i > Len(existing) THEN "new"
    ELSE LET tip == existing[i]
         IN  IF Get(tip.title).k # "str" THEN "raise"
             ELSE IF Norm(Get(tip.title).s) = new_title THEN "dup"
             ELSE IF Get(tip.content).k # "str" THEN "raise"
             ELSE IF Norm(Get(tip.content).s) = new_content THEN "dup"
             ELSE DupScan(new_title, new_content, existing, i + 1)

\* is_duplicate with a scan that misses the first record
is_duplicate_skips_first(new_tip, existing) ==
    IF new_tip.title.k # "str" \/ new_tip.content.k # "str" THEN "raise"
    ELSE DupScan(Norm(new_tip.title.s), Norm(new_tip.content.s), existing, 2)

\* is_duplicate comparing titles alone (no normalised content is " ")
is_duplicate_title_only(new_tip, existing) ==
    IF new_tip.title.k # "str" \/ new_tip.content.k # "str" THEN "raise"
    ELSE DupScan(Norm(new_tip.title.s), <<" ">>, existing, 1)

\* "dup" is True, "new" is False, "raise" is the AttributeError of calling
\* .lower() on a value that is not a string.
is_duplicate(new_tip, existing) ==
    IF new_tip.title.k # "str" \/ new_tip.content.k # "str" THEN "raise"
    ELSE DupScan(Norm(new_tip.title.s), Norm(new_tip.content.s), existing, 1)

\* ------------------------------------------------ process_single_video
Result(raised, existing, added) ==
    [raised |-> raised, existing |-> existing, added |-> added]

\* the loop with current_id advanced for a skipped duplicate too
RECURSIVE AddLoop_counts_skipped(_, _, _, _, _)
AddLoop_counts_skipped(raw_tips, i, existing, added, current_id) ==
    IF i > Len(raw_tips) THEN Result(FALSE, existing, added)
    ELSE LET d == is_duplicate(raw_tips[i], existing)
         IN  CASE d = "raise" -> Result(TRUE, existing, added)
               [] d = "dup" ->
                    AddLoop_counts_skipped(raw_tips, i + 1, existing, added,
                                           current_id + 1)
               [] OTHER ->
                    LET tip == WithId(raw_tips[i], current_id)
                    IN  AddLoop_counts_skipped(raw_tips, i + 1, Append(existing, tip),
                                               Append(added, tip), current_id + 1)

\* the loop putting an accepted record in front of the collection
RECURSIVE AddLoop_prepends(_, _, _, _, _)
AddLoop_prepends(raw_tips, i, existing, added, current_id) ==
    IF i > Len(raw_tips) THEN Result(FALSE, existing, added)
    ELSE LET d == is_duplicate(raw_tips[i], existing)
         IN  CASE d = "raise" -> Result(TRUE, existing, added)
               [] d = "dup" ->
                    AddLoop_prepends(raw_tips, i + 1, existing, added, current_id)
               [] OTHER ->
                    LET tip == WithId(raw_tips[i], current_id)
                    IN  AddLoop_prepends(raw_tips, i + 1, <<tip>> \o existing,
                                         Append(added, tip), current_id + 1)

\* The loop of lines 274-281 from candidate i on.  An exception leaves the
\* records appended so far in existing_tips (the list is mutated in place).
RECURSIVE AddLoop(_, _, _, _, _)
AddLoop(raw_tips, i, existing, added, current_id) ==
    IF i > Len(raw_tips) THEN Result(FALSE, existing, added)
    ELSE LET d == is_duplicate(raw_tips[i], existing)
         IN  CASE d = "raise" -> Result(TRUE, existing, added)
               [] d = "dup" -> AddLoop(raw_tips, i + 1, existing, added, current_id)
               [] OTHER ->
                    LET tip == WithId(raw_tips[i], current_id)
                    IN  AddLoop(raw_tips, i + 1, Append(existing, tip),
                                Append(added, tip), current_id + 1)

\* process_single_video previewing in a dry run without touching the list
process_single_video_dry_skips(existing_tips0, transcript, gen, dry) ==
    IF transcript # "text" THEN Result(FALSE, existing_tips0, <<>>)
    ELSE LET raw == extract_tips(gen)
         IN  IF raw.raised THEN Result(TRUE, existing_tips0, <<>>)
             ELSE IF raw.tips = <<>> \/ dry THEN Result(FALSE, existing_tips0, <<>>)
             ELSE AddLoop(raw.tips, 1, existing_tips0, <<>>, next_id(existing_tips0))

\* transcript is what fetch_transcript returned: "none" (None, any transcript
\* error), "empty" (no text) or "text"; gen is the generator's answer.  dry
\* is the dry_run argument, which lines 283-288 read for the log alone.
process_single_video(existing_tips0, transcript, gen, dry) ==
    IF transcript # "text" THEN Result(FALSE, existing_tips0, <<>>)
    ELSE LET raw == extract_tips(gen)
         IN  IF raw.raised THEN Result(TRUE, existing_tips0, <<>>)
             ELSE IF raw.tips = <<>> THEN Result(FALSE, existing_tips0, <<>>)
             ELSE AddLoop(raw.tips, 1, existing_tips0, <<>>, next_id(existing_tips0))

\* ------------------------------------------------------ configuration
CHANNELS == << "UCGq-a57w-aPwyi3pIPAg6Jg", "UC2D2CMWXMOVWx7giW1n3LIg" >>
ChannelIds == { CHANNELS[i] : i \in 1..Len(CHANNELS) }

\* ---------------------------------------------------------- timestamps
\* strftime("%Y-%m-%dT%H:%M:%SZ"): a fixed-width, zero-padded rendering of
\* the clock; here the clock counts from the model's origin and is rendered
\* in two decimal digits.  Timestamps are kept and compared as strings.
strftime(t) == << t \div 10, t % 10 >>
NoTs == <<>>

\* a <= b for two rendered timestamps (the order the discovery API applies
\* to publishedAfter)
RECURSIVE TsLeq(_, _)
TsLeq(a, b) ==
    IF a = <<>> THEN TRUE
    ELSE IF b = <<>> THEN FALSE
    ELSE IF Head(a) # Head(b) THEN Head(a) < Head(b)
    ELSE TsLeq(Tail(a), Tail(b))

RECURSIVE SeqsUpTo(_, _)
SeqsUpTo(pool, n) ==
    IF n = 0 THEN { <<>> }
    ELSE LET shorter == SeqsUpTo(pool, n - 1)
         IN  shorter \cup { Append(q, c) : q \in shorter, c \in pool }

NoGen == Gen("none", <<>>)

\* What one call of process_single_video meets: no transcript (the generator
\* is then never called), or a transcript and the generator's answer.
CallInputs ==
    { [transcript |-> t, gen |-> NoGen] : t \in {"none", "empty"} }
    \cup { [transcript |-> "text", gen |-> Gen(k, <<>>)] :
             k \in {"error", "invalid", "nonarray"} }
    \cup { [transcript |-> "text", gen |-> Gen("array", a)] :
             a \in SeqsUpTo(Elements, MaxCands) }

\* The answers drawn in whole runs of main().
RunInputs ==
    { [transcript |-> "none", gen |-> NoGen],
      [transcript |-> "text", gen |-> Gen("error", <<>>)],
      [transcript |-> "text", gen |-> Gen("array", <<>>)],
      [transcript |-> "text", gen |-> Gen("array", <<"Good1">>)],
      [transcript |-> "text", gen |-> Gen("array", <<"SameTitle", "SameContent">>)],
      [transcript |-> "text", gen |-> Gen("array", <<"BadCategory", "NoSource">>)],
      [transcript |-> "text", gen |-> Gen("array", <<"NonObject", "NullContent">>)] }

\* ---------------------------------------------------------------- state
VARIABLES
    tipsFile,        \* data/tips.json: the persisted tip store
    stateFile,       \* .last_checked.json: the persisted checkpoint map
    now,             \* the UTC clock
    uploads,         \* the videos published so far: <<[ch, t]>>, id = index
    runs,            \* runs of main() started
    pc,              \* where main() is
    dry_run,         \* args.dry_run
    video_id,        \* args.video_id (NoVideo when not given)
    existing_tips,   \* main(): existing_tips
    state,           \* main(): state
    total_added,     \* main(): total_added
    chIdx,           \* index of the channel the sweep is at
    videos,          \* videos of that channel still to process
    published_after, \* the lower bound last handed to discovery
    calls,           \* video ids process_single_video was called for, this run
    discovered,      \* video ids discovery returned, this run, in order
    searches,        \* channels discovery was called for, this run
    writes,          \* the files this run wrote
    pre_tips,        \* the collection before the last call
    returned,        \* what the last call returned
    raised,          \* the last call ended in an exception
    held,            \* the input of the last call, when a repeat is to follow
    repeated,        \* the last call repeated the one before it
    ncalls,          \* calls made (call-level specification)
    ended,           \* the clock reading at each channel's checkpoint, this sweep
    tracked,         \* the history of sweeps (seen, failed, pending) is kept
    seen,            \* video ids handed over in earlier sweeps that persisted
    failed,          \* this sweep's collaborator failures (see Discover, ProcessNext)
    pending,         \* video ids an earlier sweep lost to a collaborator failure
    twin             \* the same run with dry_run flipped: its in-memory state

vars ==
    << tipsFile, stateFile, now, uploads, runs, pc, dry_run, video_id,
       existing_tips, state, total_added, chIdx, videos, published_after,
       calls, discovered, searches, writes, pre_tips, returned,
       raised, held, repeated, ncalls, ended, tracked, seen, failed, pending,
       twin >>

envVars == << now, uploads >>
fileVars == << tipsFile, stateFile >>
runVars ==
    << runs, pc, dry_run, video_id, state, total_added, chIdx, videos,
       published_after, calls, discovered, searches, writes >>
callVars == << held, repeated, ncalls >>
memVars == << existing_tips, pre_tips, returned, raised >>
sweepVars == << ended, tracked, seen, pending >>

NoVideo == 0
NoInput == [transcript |-> "none", gen |-> NoGen]
EmptyState == [c \in ChannelIds |-> NoTs]
NoTime == -1
NotEnded == [c \in ChannelIds |-> NoTime]
Range(q) == { q[i] : i \in 1..Len(q) }

\* The in-memory state of a run of main() right after its two loads.
Loaded(tips, st) ==
    [existing_tips |-> tips, state |-> st, total_added |-> <<>>,
     videos |-> <<>>, calls |-> <<>>, returned |-> <<>>, raised |-> FALSE]

\* Before the first run: no file exists yet.
Fresh ==
    /\ tipsFile = <<>>
    /\ stateFile = EmptyState
    /\ now = DEFAULT_LOOKBACK_HOURS
    /\ uploads = <<>>
    /\ runs = 0
    /\ pc = "idle"
    /\ dry_run = FALSE
    /\ video_id = NoVideo
    /\ existing_tips = <<>>
    /\ state = EmptyState
    /\ total_added = <<>>
    /\ chIdx = 1
    /\ videos = <<>>
    /\ published_after = NoTs
    /\ calls = <<>>
    /\ discovered = <<>>
    /\ searches = <<>>
    /\ writes = {}
    /\ pre_tips = <<>>
    /\ returned = <<>>
    /\ raised = FALSE
    /\ held = NoInput
    /\ repeated = FALSE
    /\ ncalls = 0
    /\ ended = NotEnded
    /\ seen = {}
    /\ failed = {}
    /\ pending = {}
    /\ twin = Loaded(<<>>, EmptyState)

Init == Fresh /\ tracked = FALSE

\* The same start, with the history of sweeps kept.
InitSweeps == Fresh /\ tracked = TRUE

\* ---------------------------------------------------------- environment
\* The clock and the channels move while no run is on and while a run can
\* still observe them (before a search, before a checkpoint); finalize reads
\* neither, so a move during it is a move before the next run.
Observable == pc \in {"idle", "forced", "channel", "videos"}

\* datetime.now(timezone.utc): the clock only moves forward.
Tick ==
    /\ Observable
    /\ now < DEFAULT_LOOKBACK_HOURS + MaxTicks
    /\ now' = now + 1
    /\ UNCHANGED << uploads, fileVars, runVars, callVars, memVars, sweepVars,
                    failed, twin >>

\* A channel publishes a video, stamped with the current time.
Upload(ch) ==
    /\ Observable
    /\ Len(uploads) < MaxUploads
    /\ uploads' = Append(uploads, [ch |-> ch, t |-> now])
    /\ UNCHANGED << now, fileVars, runVars, callVars, memVars, sweepVars,
                    failed, twin >>

\* ------------------------------------------------------- storage reads
\* json.loads of the file when it exists and parses, else the default.
load_existing_tips(ok) == IF ok THEN tipsFile ELSE <<>>
load_state(ok) == IF ok THEN stateFile ELSE EmptyState

\* ------------------------------------------------------------ discovery
\* The search API's answer: the channel's videos published at or after
\* published_after, newest first, at most MaxResults of them.
RECURSIVE Matching(_, _, _)
Matching(ch, after, i) ==
    IF i = 0 THEN <<>>
    ELSE IF uploads[i].ch = ch /\ TsLeq(after, strftime(uploads[i].t))
         THEN <<i>> \o Matching(ch, after, i - 1)
         ELSE Matching(ch, after, i - 1)

FirstN(q, n) == SubSeq(q, 1, IF Len(q) < n THEN Len(q) ELSE n)

\* ok = FALSE is the API error of lines 85-87.
fetch_new_videos(ch, after, ok) ==
    IF ok THEN FirstN(Matching(ch, after, Len(uploads)), MaxResults) ELSE <<>>

\* ----------------------------------------------------------------- main
\* Lines 292-313: parse the arguments, load both files.
StartRun(dry, vid, okTips, okState) ==
    /\ pc \in {"idle", "done", "crashed", "killed"}
    /\ runs < MaxRuns
    /\ runs' = runs + 1
    /\ dry_run' = dry
    /\ video_id' = vid
    /\ existing_tips' = load_existing_tips(okTips)
    /\ state' = load_state(okState)
    /\ total_added' = <<>>
    /\ chIdx' = 1
    /\ videos' = <<>>
    /\ published_after' = NoTs
    /\ calls' = <<>>
    /\ discovered' = <<>>
    /\ searches' = <<>>
    /\ writes' = {}
    /\ pre_tips' = load_existing_tips(okTips)
    /\ returned' = <<>>
    /\ raised' = FALSE
    /\ pc' = IF vid # NoVideo THEN "forced" ELSE "channel"
    /\ ended' = NotEnded
    /\ seen' = IF tracked /\ pc = "done" /\ video_id = NoVideo /\ "state" \in writes
               THEN seen \cup Range(calls) ELSE seen
    /\ pending' = IF tracked /\ pc = "done" /\ video_id = NoVideo
                  THEN (pending \ Range(calls)) \cup { v \in failed : v > 0 }
                  ELSE pending
    /\ failed' = {}
    /\ twin' = Loaded(load_existing_tips(okTips), load_state(okState))
    /\ UNCHANGED << envVars, fileVars, callVars, tracked >>

\* One call of process_single_video on existing_tips: the list is mutated in
\* place, and an exception leaves no return value.
Invoke(inp) ==
    LET r == process_single_video(existing_tips, inp.transcript, inp.gen, dry_run)
    IN  /\ existing_tips' = r.existing
        /\ pre_tips' = existing_tips
        /\ returned' = IF r.raised THEN <<>> ELSE r.added
        /\ raised' = r.raised

\* The same call in the twin run: on the twin's collection, with the other
\* value of dry_run.
TwinCall(vid, inp) ==
    LET r == process_single_video(twin.existing_tips, inp.transcript, inp.gen,
                                  ~dry_run)
        got == IF r.raised THEN <<>> ELSE r.added
    IN  [twin EXCEPT !.existing_tips = r.existing,
                     !.returned = got,
                     !.raised = r.raised,
                     !.calls = Append(@, vid),
                     !.total_added = @ \o got]

\* Lines 315-322: the forced single video.
ProcessForced(inp) ==
    /\ pc = "forced"
    /\ Invoke(inp)
    /\ calls' = Append(calls, video_id)
    /\ total_added' = total_added \o returned'
    /\ pc' = IF raised' THEN "crashed" ELSE "finalize"
    /\ twin' = TwinCall(video_id, inp)
    /\ UNCHANGED << envVars, fileVars, callVars, runs, dry_run, video_id, state,
                    chIdx, videos, published_after, discovered, searches, writes,
                    sweepVars, failed >>

\* The same search in the twin run, from the twin's checkpoint map.
TwinSearch(ok) ==
    LET ch_id == CHANNELS[chIdx]
        last_checked == twin.state[ch_id]
        after == IF last_checked # NoTs THEN last_checked
                 ELSE strftime(now - DEFAULT_LOOKBACK_HOURS)
    IN  [twin EXCEPT !.videos = fetch_new_videos(ch_id, after, ok)]

\* Lines 324-340: the discovery lower bound and the search of one channel.
\* failed keeps what this sweep lost to a collaborator: -i for an errored
\* search of channel i with the videos it would have returned, and (in
\* ProcessNext) a video whose transcript or generation call failed.
Discover(ok) ==
    /\ pc = "channel"
    /\ LET ch_id == CHANNELS[chIdx]
           last_checked == state[ch_id]
           after == IF last_checked # NoTs THEN last_checked
                    ELSE strftime(now - DEFAULT_LOOKBACK_HOURS)
           found == fetch_new_videos(ch_id, after, ok)
       IN  /\ published_after' = after
           /\ videos' = found
           /\ discovered' = discovered \o found
           /\ searches' = Append(searches, ch_id)
           /\ failed' = IF ok \/ ~tracked THEN failed
                        ELSE failed \cup {-chIdx}
                                    \cup Range(fetch_new_videos(ch_id, after, TRUE))
    /\ twin' = TwinSearch(ok)
    /\ pc' = "videos"
    /\ UNCHANGED << envVars, fileVars, callVars, memVars, runs, dry_run, video_id,
                    state, total_added, chIdx, calls, writes, sweepVars >>

\* Lines 342-347: the next video of the channel.
ProcessNext(inp) ==
    /\ pc = "videos"
    /\ videos # <<>>
    /\ Invoke(inp)
    /\ calls' = Append(calls, Head(videos))
    /\ total_added' = total_added \o returned'
    /\ videos' = Tail(videos)
    /\ pc' = IF raised' THEN "crashed" ELSE "videos"
    /\ failed' = IF tracked /\ (inp.transcript = "none" \/ inp.gen.kind = "error")
                 THEN failed \cup {Head(videos)} ELSE failed
    /\ twin' = IF twin.videos = <<>> THEN twin
               ELSE [TwinCall(Head(twin.videos), inp) EXCEPT !.videos = Tail(@)]
    /\ UNCHANGED << envVars, fileVars, callVars, runs, dry_run, video_id, state,
                    chIdx, published_after, discovered, searches, writes,
                    sweepVars >>

\* the checkpoint set only when the sweep has discovered a video
Checkpoint_when_found ==
    /\ pc = "videos"
    /\ videos = <<>>
    /\ state' = IF discovered = <<>> THEN state
                ELSE [state EXCEPT ![CHANNELS[chIdx]] = strftime(now)]
    /\ ended' = [ended EXCEPT ![CHANNELS[chIdx]] = now]
    /\ twin' = [twin EXCEPT !.state = state']
    /\ chIdx' = chIdx + 1
    /\ pc' = IF chIdx = Len(CHANNELS) THEN "finalize" ELSE "channel"
    /\ UNCHANGED << envVars, fileVars, callVars, memVars, runs, dry_run, video_id,
                    total_added, videos, published_after, calls, discovered,
                    searches, writes, tracked, seen, pending, failed >>

\* Line 349: the channel's checkpoint, then the next channel or finalize.
Checkpoint ==
    /\ pc = "videos"
    /\ videos = <<>>
    /\ state' = [state EXCEPT ![CHANNELS[chIdx]] = strftime(now)]
    /\ ended' = [ended EXCEPT ![CHANNELS[chIdx]] = now]
    /\ twin' = [twin EXCEPT !.state = [@ EXCEPT ![CHANNELS[chIdx]] = strftime(now)]]
    /\ chIdx' = chIdx + 1
    /\ pc' = IF chIdx = Len(CHANNELS) THEN "finalize" ELSE "channel"
    /\ UNCHANGED << envVars, fileVars, callVars, memVars, runs, dry_run, video_id,
                    total_added, videos, published_after, calls, discovered,
                    searches, writes, tracked, seen, pending, failed >>

\* Lines 204-207 (the regenerated data.ts of lines 209-212 holds the same
\* array and is not kept apart).
save_tips(all_tips) ==
    /\ tipsFile' = all_tips
    /\ writes' = writes \cup {"tips"}

\* Lines 66-67.
save_state(st) ==
    /\ stateFile' = st
    /\ writes' = writes \cup {"state"}

\* the first branch of finalize without its dry-run test
FinalizeTips_any_mode ==
    /\ pc = "finalize"
    /\ total_added # <<>>
    /\ save_tips(existing_tips)
    /\ pc' = "save_state"
    /\ UNCHANGED << envVars, stateFile, callVars, memVars, runs, dry_run, video_id,
                    state, total_added, chIdx, videos, published_after, calls,
                    discovered, searches, sweepVars, failed, twin >>

\* the first branch of finalize writing the checkpoint map first
FinalizeTips_state_first ==
    /\ pc = "finalize"
    /\ total_added # <<>> /\ ~dry_run
    /\ save_state(state)
    /\ pc' = "save_state"
    /\ UNCHANGED << envVars, tipsFile, callVars, memVars, runs, dry_run, video_id,
                    state, total_added, chIdx, videos, published_after, calls,
                    discovered, searches, sweepVars, failed, twin >>

\* Lines 351-352: tips were added and this is no dry run: the tip store.
FinalizeTips ==
    /\ pc = "finalize"
    /\ total_added # <<>> /\ ~dry_run
    /\ save_tips(existing_tips)
    /\ pc' = "save_state"
    /\ UNCHANGED << envVars, stateFile, callVars, memVars, runs, dry_run, video_id,
                    state, total_added, chIdx, videos, published_after, calls,
                    discovered, searches, sweepVars, failed, twin >>

\* Line 353: then the checkpoint map.
FinalizeState ==
    /\ pc = "save_state"
    /\ save_state(state)
    /\ pc' = "done"
    /\ UNCHANGED << envVars, tipsFile, callVars, memVars, runs, dry_run, video_id,
                    state, total_added, chIdx, videos, published_after, calls,
                    discovered, searches, sweepVars, failed, twin >>

\* Lines 355-357: nothing was added: the checkpoint map alone.
FinalizeNothing ==
    /\ pc = "finalize"
    /\ ~(total_added # <<>> /\ ~dry_run)
    /\ total_added = <<>>
    /\ save_state(state)
    /\ pc' = "done"
    /\ UNCHANGED << envVars, tipsFile, callVars, memVars, runs, dry_run, video_id,
                    state, total_added, chIdx, videos, published_after, calls,
                    discovered, searches, sweepVars, failed, twin >>

\* Lines 358-359: a dry run with additions.
FinalizeDry ==
    /\ pc = "finalize"
    /\ ~(total_added # <<>> /\ ~dry_run)
    /\ total_added # <<>>
    /\ pc' = "done"
    /\ UNCHANGED << envVars, fileVars, callVars, memVars, runs, dry_run, video_id,
                    state, total_added, chIdx, videos, published_after, calls,
                    discovered, searches, writes, sweepVars, failed, twin >>

\* the ids --video-id is given in the runs drawn
ForcedIds == {1}

Next ==
    \/ Tick
    \/ \E ch \in ChannelIds : Upload(ch)
    \/ \E dry \in BOOLEAN, vid \in {NoVideo} \cup ForcedIds, okTips \in BOOLEAN,
          okState \in BOOLEAN : StartRun(dry, vid, okTips, okState)
    \/ \E inp \in RunInputs : ProcessForced(inp)
    \/ \E ok \in BOOLEAN : Discover(ok)
    \/ \E inp \in RunInputs : ProcessNext(inp)
    \/ Checkpoint
    \/ FinalizeTips
    \/ FinalizeState
    \/ FinalizeNothing
    \/ FinalizeDry

Spec == Init /\ [][Next]_vars

\* ------------------------------------------------ interrupted finalize
\* The process is stopped during finalize (lines 351-359): before either
\* write, or between save_tips and save_state.  What was written stays.
Interrupt ==
    /\ pc \in {"finalize", "save_state"}
    /\ pc' = "killed"
    /\ UNCHANGED << envVars, fileVars, callVars, memVars, runs, dry_run, video_id,
                    state, total_added, chIdx, videos, published_after, calls,
                    discovered, searches, writes, sweepVars, failed, twin >>

NextInterrupt ==
    \/ Next
    \/ Interrupt

SpecInterrupt == Init /\ [][NextInterrupt]_vars

\* ------------------------------------------------- successive sweeps
\* The runs of Spec, with the history of sweeps kept.
SpecSweeps == InitSweeps /\ [][Next]_vars

\* ------------------------------------------- call-level specification
\* Any sequence of process_single_video calls on one collection, from empty.
\* keep says whether the input is kept for a repeat of the call.
Call(inp, keep) ==
    /\ ncalls < MaxCalls
    /\ ~raised
    /\ held = NoInput
    /\ Invoke(inp)
    /\ held' = IF keep THEN inp ELSE NoInput
    /\ repeated' = FALSE
    /\ ncalls' = ncalls + 1
    /\ UNCHANGED << envVars, fileVars, runVars, sweepVars, failed, twin >>

\* The same call once more: same video, same transcript, same answer.
CallAgain ==
    /\ ~raised
    /\ held # NoInput
    /\ Invoke(held)
    /\ held' = NoInput
    /\ repeated' = TRUE
    /\ ncalls' = ncalls
    /\ UNCHANGED << envVars, fileVars, runVars, sweepVars, failed, twin >>

NextCalls ==
    \/ \E inp \in CallInputs, keep \in BOOLEAN : Call(inp, keep)
    \/ CallAgain

SpecCalls == Init /\ [][NextCalls]_vars

\* ================================================================ claims
Ids(tips) == { tips[i].id : i \in 1..Len(tips) }
Appended == SubSeq(existing_tips, Len(pre_tips) + 1, Len(existing_tips))

\* C1: every record of the collection has a positive integer id, and no two
\* records have the same id, after any sequence of process_single_video calls.
C1_IdsPositiveUnique ==
    /\ \A i \in 1..Len(existing_tips) : existing_tips[i].id \in Nat \ {0}
    /\ \A i, j \in 1..Len(existing_tips) :
          i # j => existing_tips[i].id # existing_tips[j].id

\* a second call has appended records to a collection the first call filled
C1_Witness ==
    /\ ncalls = 2
    /\ Len(pre_tips) >= 1
    /\ Len(existing_tips) > Len(pre_tips)

\* C2: the ids one call assigns start at max(existing ids) + 1 (at 1 on an
\* empty collection) and are consecutive in acceptance order; a skipped
\* duplicate consumes none and no existing id is used again.
C2_IdsSequential ==
    LET first == IF pre_tips = <<>> THEN 1
                 ELSE (CHOOSE m \in Ids(pre_tips) : \A x \in Ids(pre_tips) : x <= m) + 1
    IN  /\ \A j \in 1..Len(Appended) : Appended[j].id = first + j - 1
        /\ \A j \in 1..Len(Appended) : Appended[j].id \notin Ids(pre_tips)

\* one call appended two records to a non-empty collection
C2_Witness ==
    /\ Len(pre_tips) >= 1
    /\ Len(Appended) = 2
    /\ ~raised

\* C3: the same call repeated on the collection the first one left, with the
\* same answer of the generator, adds nothing and leaves the collection as
\* the first call left it.
C3_Idempotent ==
    repeated => (existing_tips = pre_tips /\ returned = <<>>)

\* the only call so far added two records and was then repeated
C3_Witness ==
    /\ repeated
    /\ ncalls = 1
    /\ Len(existing_tips) = 2

\* C4: a dry run writes neither the tip store nor the checkpoint map.
C4_DryRunWritesNothing ==
    dry_run => writes = {}

\* C5: a sweep never lowers a channel's checkpoint, and no run lowers (or
\* drops) the persisted checkpoint of a channel.
C5_CheckpointMonotone ==
    [][ /\ \A c \in ChannelIds : TsLeq(stateFile[c], stateFile'[c])
        /\ pc = "videos" => \A c \in ChannelIds : TsLeq(state[c], state'[c]) ]_vars

\* the claim's side of C6: some record has the same lower-cased, trimmed title
\* or the same lower-cased, trimmed content
SameKey(a, b) == a.k = "str" /\ b.k = "str" /\ Norm(a.s) = Norm(b.s)
MatchesSome(c, existing) ==
    \E i \in 1..Len(existing) :
        \/ SameKey(c.title, existing[i].title)
        \/ SameKey(c.content, existing[i].content)

\* the candidates the kept call handed to is_duplicate first: those
\* extract_tips returned
HeldCandidates ==
    IF held = NoInput \/ held.transcript # "text" THEN <<>>
    ELSE extract_tips(held.gen).tips

\* C6: is_duplicate(candidate, existing) returns true exactly when the
\* candidate's normalised title or content equals that of some existing
\* record, and false on an empty collection.
C6_IsDuplicateIff ==
    \A i \in 1..Len(HeldCandidates) :
        LET d == is_duplicate(HeldCandidates[i], pre_tips)
        IN  /\ d \in {"dup", "new"}
            /\ d = "dup" <=> MatchesSome(HeldCandidates[i], pre_tips)
            /\ pre_tips = <<>> => d = "new"

\* C7: the tip store is written at the end of a run exactly when the run
\* added a tip and is no dry run; the checkpoint map is then written in the
\* same run; a dry run with additions writes neither.
C7_TipStoreWrittenIff ==
    /\ "tips" \in writes => (total_added # <<>> /\ ~dry_run)
    /\ pc = "done" =>
          /\ "tips" \in writes <=> (total_added # <<>> /\ ~dry_run)
          /\ "tips" \in writes => "state" \in writes
          /\ (dry_run /\ total_added # <<>>) => writes = {}

\* a run that was no dry run ended having written both files
C7_Witness ==
    /\ pc = "done"
    /\ ~dry_run
    /\ total_added # <<>>
    /\ writes = {"tips", "state"}

\* the claim's side of C8
EmptyOrAbsent(v) == v.k \in {"absent", "null"} \/ (v.k = "str" /\ v.s = <<>>)
ClaimRejects(c) ==
    \/ ~(c.category.k = "str" /\ c.category.s \in VALID_CATEGORIES)
    \/ EmptyOrAbsent(c.title)
    \/ EmptyOrAbsent(c.content)
    \/ EmptyOrAbsent(c.source)
ClaimAccepted(c) ==
    IF c.content.k = "str" /\ Len(c.content.s) > 280
    THEN [c EXCEPT !.content =
            Str([i \in 1..280 |-> IF i <= 277 THEN c.content.s[i] ELSE "."])]
    ELSE c

\* C8: validation rejects a candidate exactly when its category is outside the
\* set or its title, content or source is empty or absent; an accepted
\* candidate keeps its fields, content over 280 characters cut to 277 + "...".
C8_ValidateIff ==
    held.gen.kind = "array" =>
        \A i \in 1..Len(held.gen.items) :
            LET c == Parsed(held.gen.items[i])
                r == ValidateOne(c)
            IN  c.obj =>
                    IF ClaimRejects(c) THEN r.res = "skip"
                    ELSE r.res = "ok" /\ r.tip = ClaimAccepted(c)

\* C9: whatever the elements of the generator's array are, extract_tips and
\* the deduplication that follows complete without raising.
C9_NeverRaises ==
    ~raised

\* C10: in a sweep every channel is searched in configured order and the
\* per-video processor is called once for every video discovery returned, in
\* that order, whatever failed; the run never aborts before finalize.
C10_FailureIsolation ==
    /\ pc # "crashed"
    /\ (video_id = NoVideo /\ pc \in {"finalize", "save_state", "done"}) =>
          /\ searches = CHANNELS
          /\ calls = discovered

\* C11: a sweep sets the checkpoint of every channel it has finished to the
\* clock reading at the end of that channel's processing, whatever discovery
\* and the videos did; at the end of the sweep every channel has such an
\* entry, and after finalize of a sweep that is no dry run the persisted map
\* holds these values.
C11_CheckpointsSet ==
    /\ video_id = NoVideo =>
          \A i \in 1..Len(CHANNELS) :
              i < chIdx => /\ ended[CHANNELS[i]] # NoTime
                           /\ state[CHANNELS[i]] = strftime(ended[CHANNELS[i]])
    /\ (video_id = NoVideo /\ pc \in {"finalize", "save_state", "done"}) =>
          chIdx = Len(CHANNELS) + 1
    /\ (video_id = NoVideo /\ pc = "done" /\ ~dry_run) =>
          /\ "state" \in writes
          /\ stateFile = state

\* a first sweep, no dry run, ended without a video discovered although one
\* was published, its two channels finished at different times
C11_Witness ==
    /\ video_id = NoVideo
    /\ pc = "done"
    /\ ~dry_run
    /\ runs = 1
    /\ uploads # <<>>
    /\ discovered = <<>>
    /\ ended[CHANNELS[1]] # ended[CHANNELS[2]]
    /\ stateFile = [c \in ChannelIds |-> strftime(ended[c])]

\* C12: in a run with a forced video id discovery is never called, the
\* per-video processor is called exactly once, for that id, and no checkpoint
\* changes, neither in memory nor in the persisted map.
C12_ForcedBypasses ==
    [][ (video_id # NoVideo /\ pc \in {"forced", "finalize", "save_state"}) =>
            /\ state' = state
            /\ stateFile' = stateFile
            /\ searches' = <<>>
            /\ pc' = "done" => calls' = <<video_id>> ]_vars

\* a is an initial segment of b
Prefix(a, b) == Len(a) <= Len(b) /\ SubSeq(b, 1, Len(a)) = a

\* C13: no step of any run removes, moves or alters a record of the persisted
\* tip store: a write only appends after the records that were there.
C13_StoreOnlyGrows ==
    [][ Prefix(tipsFile, tipsFile') ]_vars

\* the tip-record invariants of C14
TipRecordOk(t) ==
    /\ t.category.k = "str" /\ t.category.s \in VALID_CATEGORIES
    /\ ~EmptyOrAbsent(t.source)
    /\ ~EmptyOrAbsent(t.title)
    /\ ~EmptyOrAbsent(t.content)
    /\ t.content.k = "str" /\ Len(t.content.s) <= 280

\* C14: every record process_single_video appends has a category of the
\* 11-value set, a non-empty source, title and content, and a content of at
\* most 280 characters; so has every record of a collection built from empty.
C14_RecordInvariants ==
    \A i \in 1..Len(existing_tips) : TipRecordOk(existing_tips[i])

\* the last call appended a record whose content came 281 characters long
C14_Witness ==
    /\ held.gen.kind = "array"
    /\ \E j \in 1..Len(held.gen.items) : held.gen.items[j] = "TooLong"
    /\ \E i \in 1..Len(Appended) : Len(Appended[i].content.s) = 280

\* C15: a sweep hands discovery the channel's stored checkpoint as lower
\* bound when there is one, else now minus the lookback; and a sweep that
\* persists its checkpoints has handed the per-video processor no video that
\* an earlier sweep which persisted its checkpoints had handed to it.
C15_NoRescan ==
    [][ /\ (pc = "channel" /\ pc' = "videos") =>
              published_after' =
                  IF state[CHANNELS[chIdx]] # NoTs THEN state[CHANNELS[chIdx]]
                  ELSE strftime(now - DEFAULT_LOOKBACK_HOURS)
        /\ (video_id = NoVideo /\ pc # "done" /\ pc' = "done"
                /\ "state" \in writes') =>
              Range(calls) \cap seen = {} ]_vars

\* C16: a video that an earlier sweep lost to a collaborator failure (an
\* errored search of its channel, no transcript, an errored generation) has
\* been handed to the per-video processor again by the time a later sweep
\* whose collaborators all succeeded reaches finalize.
C16_CatchUp ==
    (video_id = NoVideo /\ pc \in {"finalize", "save_state", "done"}
        /\ failed = {}) =>
        pending \subseteq Range(calls)

\* C17: the checkpoint map of a run that added tips is written only after
\* the tip store holds them, also when the run is interrupted during
\* finalize: an interrupted run has left the checkpoint map as it was.
C17_TipsBeforeCheckpoint ==
    /\ ("state" \in writes /\ total_added # <<>>) =>
          /\ "tips" \in writes
          /\ tipsFile = existing_tips
          /\ \A i \in 1..Len(total_added) : total_added[i] \in Range(tipsFile)
    /\ pc = "killed" => "state" \notin writes

\* a run was interrupted between the two writes: the store holds the added
\* tips, the checkpoint map lags behind
C17_Witness ==
    /\ pc = "killed"
    /\ video_id = NoVideo
    /\ writes = {"tips"}
    /\ total_added # <<>>
    /\ tipsFile = existing_tips
    /\ stateFile # state

\* C18: a call of process_single_video leaves the records that were in the
\* collection where and as they were; the list it returns is the sequence of
\* records it appended, in order; when it returns the empty list the
\* collection is unchanged.
C18_FrameOfCall ==
    /\ Prefix(pre_tips, existing_tips)
    /\ ~raised => returned = Appended
    /\ (~raised /\ returned = <<>>) => existing_tips = pre_tips

\* a call on a non-empty collection validated two candidates, found both
\* duplicates and returned the empty list
C18_Witness ==
    /\ ~raised
    /\ pre_tips # <<>>
    /\ Len(HeldCandidates) = 2
    /\ returned = <<>>
    /\ existing_tips = pre_tips

\* C19: a run and the run that differs from it in dry_run alone (same files
\* at the start, same clock, same videos, same transcripts and generator
\* answers) hand the same videos to the per-video processor in the same
\* order, get the same lists back from it, with the same ids, and hold the
\* same collection and the same checkpoint map in memory, at every step.
C19_DryRunSameProcessing ==
    /\ twin.calls = calls
    /\ twin.returned = returned
    /\ twin.raised = raised
    /\ twin.total_added = total_added
    /\ twin.existing_tips = existing_tips
    /\ twin.state = state
    /\ pc = "videos" => twin.videos = videos

\* a dry-run sweep whose twin is no dry run has ended: tips were added in
\* memory to a collection read from a non-empty store, nothing was written
C19_Witness ==
    /\ pc = "done"
    /\ dry_run
    /\ video_id = NoVideo
    /\ tipsFile # <<>>
    /\ Len(existing_tips) > Len(tipsFile)
    /\ twin.total_added # <<>>
    /\ writes = {}

\* C20: in a collection built from empty no two records have the same
\* lower-cased, trimmed title, and no two the same lower-cased, trimmed
\* content, also when both came in one answer of the generator.
C20_NoTwoAlike ==
    \A i, j \in 1..Len(existing_tips) :
        i # j => /\ ~SameKey(existing_tips[i].title, existing_tips[j].title)
                 /\ ~SameKey(existing_tips[i].content, existing_tips[j].content)

\* one answer held a candidate and, after it, one with the same content up to
\* case and blanks: the first call on the empty collection kept the first
C20_Witness ==
    /\ ncalls = 1
    /\ ~repeated
    /\ pre_tips = <<>>
    /\ held.gen.kind = "array"
    /\ held.gen.items = <<"Good1", "SameContent">>
    /\ Len(existing_tips) = 1

====
